---- MODULE Spec2Model ----
(***************************************************************************)
(* Model of config/core.py (path resolver) and config/cfgvars.py (variable *)
(* source) on a POSIX host (os.sep = "/").                                 *)
(*                                                                         *)
(* A Python string is a sequence of tokens: the separators "/" and "\\",   *)
(* the dot ".", and atoms (runs of other characters, e.g. "myproject1").   *)
(* A Python value is a record [t |-> type name, v |-> token sequence].     *)
(* A Python identifier is a token sequence as well, e.g.                   *)
(* _REL_DCM_PATTERN is <<"_REL_", "DCM_PATTERN">>.                         *)
(***************************************************************************)
EXTENDS Naturals, Sequences, FiniteSets, TLC

VARIABLES
    _vars,          \* core.py:39   resolved table (dict name -> value)
    _initialized,   \* core.py:40   initialised flag
    globals,        \* module-level names of config.core (globals())
    cwd,            \* os.getcwd() of the process
    last,           \* the last call made by the (single-threaded) caller and its outcome
    stdout,         \* what the last call printed (set of lines)
    pc,             \* threaded runs: position of each thread inside initialise_config
    loc,            \* threaded runs: locals of each thread's initialise_config call
    seen            \* threaded runs: what the reader thread observed last

vars == <<_vars, _initialized, globals, cwd, last, stdout, pc, loc, seen>>

(***************************************************************************)
(* Bounds                                                                  *)
(***************************************************************************)
MaxSegs == 2        \* base_data_dir inputs have at most this many "/"-separated segments

(***************************************************************************)
(* Python values                                                           *)
(***************************************************************************)
NoneVal == <<"<None>">>
Truthy(s) == s # NoneVal /\ s # <<>>
Str(s) == [t |-> "str", v |-> s]
Opaque(type, repr) == [t |-> type, v |-> <<repr>>]
EmptyDict == [k \in {} |-> NoneVal]
DictUpdate(d, e) ==
    [k \in (DOMAIN d) \cup (DOMAIN e) |-> IF k \in DOMAIN e THEN e[k] ELSE d[k]]

(***************************************************************************)
(* String primitives                                                       *)
(***************************************************************************)
Sep == "/"
StartsWith(s, p) == Len(s) >= Len(p) /\ SubSeq(s, 1, Len(p)) = p
EndsWith(s, p) == Len(s) >= Len(p) /\ SubSeq(s, Len(s) - Len(p) + 1, Len(s)) = p
Replace(s, old, new) == [i \in 1..Len(s) |-> IF s[i] = old THEN new ELSE s[i]]
FirstIndex(S) == CHOOSE i \in S : \A j \in S : i <= j

RECURSIVE Split(_, _)
Split(s, sep) ==
    LET at == {i \in 1..Len(s) : s[i] = sep} IN
    IF at = {} THEN <<s>>
    ELSE LET i == FirstIndex(at) IN
         <<SubSeq(s, 1, i - 1)>> \o Split(SubSeq(s, i + 1, Len(s)), sep)

RECURSIVE JoinWith(_, _)
JoinWith(sep, parts) ==
    IF parts = <<>> THEN <<>>
    ELSE IF Len(parts) = 1 THEN parts[1]
    ELSE parts[1] \o <<sep>> \o JoinWith(sep, Tail(parts))

Repeat(tok, n) == [i \in 1..n |-> tok]

(***************************************************************************)
(* posixpath                                                               *)
(***************************************************************************)
Dot == <<".">>
DotDot == <<".", ".">>
isabs(path) == StartsWith(path, <<Sep>>)

RECURSIVE join(_)
join(segments) ==
    IF Len(segments) = 1 THEN segments[1]
    ELSE LET path == join(SubSeq(segments, 1, Len(segments) - 1))
             b == segments[Len(segments)]
         IN  IF StartsWith(b, <<Sep>>) THEN b
             ELSE IF path = <<>> \/ EndsWith(path, <<Sep>>) THEN path \o b
             ELSE path \o <<Sep>> \o b

RECURSIVE NormComps(_, _, _)
NormComps(comps, new_comps, initial_slashes) ==
    IF comps = <<>> THEN new_comps
    ELSE LET comp == Head(comps)
             rest == Tail(comps)
         IN  IF comp = <<>> \/ comp = Dot
             THEN NormComps(rest, new_comps, initial_slashes)
             ELSE IF \/ comp # DotDot
                     \/ (initial_slashes = 0 /\ new_comps = <<>>)
                     \/ (new_comps # <<>> /\ new_comps[Len(new_comps)] = DotDot)
             THEN NormComps(rest, Append(new_comps, comp), initial_slashes)
             ELSE IF new_comps # <<>>
             THEN NormComps(rest, SubSeq(new_comps, 1, Len(new_comps) - 1), initial_slashes)
             ELSE NormComps(rest, new_comps, initial_slashes)

normpath(path) ==
    IF path = <<>> THEN Dot
    ELSE LET initial_slashes ==
                 IF ~StartsWith(path, <<Sep>>) THEN 0
                 ELSE IF StartsWith(path, <<Sep, Sep>>) /\ ~StartsWith(path, <<Sep, Sep, Sep>>)
                 THEN 2 ELSE 1
             joined == JoinWith(Sep, NormComps(Split(path, Sep), <<>>, initial_slashes))
             out == Repeat(Sep, initial_slashes) \o joined
         IN  IF out = <<>> THEN Dot ELSE out

abspath(path, workdir) ==
    normpath(IF isabs(path) THEN path ELSE join(<<workdir, path>>))

(***************************************************************************)
(* The file system: the directories that exist, each the sequence of names *)
(* from the root.  A directory name may hold a backslash on a POSIX host.  *)
(***************************************************************************)
P == <<"myproject1">>
POld == <<"myproject1", "_old">>
BsName == <<"lab", "\\", "data">>
Dirs ==
    { <<>>,
      <<P>>,
      <<BsName>>,
      <<(<<"mnt">>)>>,
      <<(<<"mnt">>), (<<"lab">>)>>,
      <<(<<"mnt">>), (<<"lab">>), P>>,
      <<(<<"mnt">>), (<<"lab">>), P, (<<"analysis">>)>>,
      <<(<<"mnt">>), (<<"lab">>), P, (<<"analysis">>), P>>,
      <<(<<"mnt">>), POld>>,
      <<(<<"mnt">>), POld, (<<"analysis">>)>>,
      <<(<<"mnt">>), POld, (<<"analysis">>), P>>,
      <<(<<"repo">>)>>,
      <<(<<"repo">>), (<<"config">>)>>,
      <<(<<"repo">>), (<<"config">>), (<<"cfgvars.py">>)>> }

PathOf(dir) == <<Sep>> \o JoinWith(Sep, dir)

RECURSIVE Walk(_, _)
Walk(dir, comps) ==
    IF dir \notin Dirs THEN {}
    ELSE IF comps = <<>> THEN {dir}
    ELSE LET comp == Head(comps) IN
         IF comp = <<>> \/ comp = Dot THEN Walk(dir, Tail(comps))
         ELSE IF comp = DotDot
         THEN Walk(IF dir = <<>> THEN dir ELSE SubSeq(dir, 1, Len(dir) - 1), Tail(comps))
         ELSE Walk(Append(dir, comp), Tail(comps))

exists(path, workdir) ==
    /\ path # <<>>
    /\ Walk(<<>>, Split(IF isabs(path) THEN path ELSE join(<<workdir, path>>), Sep)) # {}

CwdChoices ==
    { PathOf(<<(<<"mnt">>), (<<"lab">>), P, (<<"analysis">>), P>>),
      PathOf(<<(<<"mnt">>), POld, (<<"analysis">>)>>) }

(***************************************************************************)
(* config/cfgvars.py: vars(cfgvars).items() in definition order            *)
(***************************************************************************)
Name(tok) == <<tok>>
RelName(tok) == <<"_REL_", tok>>
DICOM_ROOT == <<"this", "/", "is", "/", "a", "/", "path", "/", "to", "/", "root">>
CfgVars ==
    << [name |-> <<"_", "_name__">>, val |-> Str(<<"config.cfgvars">>)],
       [name |-> Name("Callable"), val |-> Opaque("type", "typing.Callable")],
       [name |-> Name("Dict"), val |-> Opaque("type", "typing.Dict")],
       [name |-> Name("os"), val |-> Opaque("module", "os")],
       [name |-> Name("IDENTIFIER"), val |-> Str(<<"PROJECT1">>)],
       [name |-> RelName("DICOM_ROOT_PATH"), val |-> Str(DICOM_ROOT)],
       [name |-> RelName("SPECTRO_TEMPLATE"),
        val |-> Str(<<"ishere", "/", "*", "/", "*", "/", "MRS-data">>)],
       [name |-> RelName("DCM_PATTERN"),
        val |-> Str(DICOM_ROOT \o <<"/", "{subject}", "/", "SCANS", "/", "*", "/",
                                    "DICOM", "/", "*.dcm">>)],
       [name |-> Name("NUM_TRS_ONE_FMRI_BLOCK"), val |-> Opaque("int", "418")],
       [name |-> Name("FMRI_BLOCK_THRESHOLD"), val |-> Opaque("float", "0.4")],
       [name |-> Name("MODALITY_CONDITIONS"), val |-> Opaque("dict", "{T1w,T2w,fMRI,DWI,DTI}")],
       [name |-> Name("DICOMINFO_TSV_NAME"), val |-> Str(<<"dicominfo_mod.tsv">>)],
       [name |-> Name("EXCLUDE_SCAN_IDS"), val |-> Opaque("list", "[]")],
       [name |-> Name("CONFIG_FILENAME"),
        val |-> Str(<<"/", "repo", "/", "config", "/", "cfgvars.py">>)] >>

UnderscoreTokens == {"_", "_REL_"}
IsRel(name) == name # <<>> /\ name[1] = "_REL_"
IsPrivate(name) == name # <<>> /\ name[1] \in UnderscoreTokens
StripRel(name) == SelectSeq(name, LAMBDA tok : tok # "_REL_")

(***************************************************************************)
(* config/core.py: utilities                                               *)
(***************************************************************************)
combine_paths(segments) ==
    join([i \in 1..Len(segments) |-> Replace(Replace(segments[i], "/", Sep), "\\", Sep)])

RECURSIVE ImportLoop(_, _)
ImportLoop(items, acc) ==
    IF items = <<>> THEN acc
    ELSE LET name == Head(items).name
             val == Head(items).val
         IN  IF IsRel(name) /\ val.t = "str"
             THEN ImportLoop(Tail(items),
                      [acc EXCEPT !.rel_paths =
                          DictUpdate(@, [k \in {StripRel(name)} |-> val.v])])
             ELSE IF ~IsPrivate(name)
             THEN ImportLoop(Tail(items),
                      [acc EXCEPT !.constants = DictUpdate(@, [k \in {name} |-> val])])
             ELSE ImportLoop(Tail(items), acc)

__import_vars_from_file ==
    ImportLoop(CfgVars, [rel_paths |-> EmptyDict, constants |-> EmptyDict])

(***************************************************************************)
(* config/core.py: initialisation                                          *)
(***************************************************************************)
Ok(v) == [ok |-> TRUE, val |-> v, err |-> <<>>]
Raise(msg) == [ok |-> FALSE, val |-> <<>>, err |-> msg]

\* mutant: the existence test of core.py:80 left out
__set_base_data_dir_NoCheck(path, workdir) == Ok(abspath(path, workdir))

__set_base_data_dir(path, workdir) ==
    LET base_data_dir == abspath(path, workdir) IN
    IF ~exists(base_data_dir, workdir)
    THEN Raise(<<"ValueError: Base data directory does not exist">>)
    ELSE Ok(base_data_dir)

\* mutant: the last matching segment instead of list.index's first one
__auto_set_base_data_dir_LastMatch(keyword, workdir) ==
    LET path_parts == Split(workdir, Sep)
        hits == {i \in 1..Len(path_parts) : path_parts[i] = keyword}
    IN  IF hits = {}
        THEN Raise(<<"ValueError: Could not auto-initialise data dir: keyword not found in cwd">>)
        ELSE __set_base_data_dir(
                 JoinWith(Sep, SubSeq(path_parts, 1, CHOOSE i \in hits : \A j \in hits : j <= i)),
                 workdir)

__auto_set_base_data_dir(keyword, workdir) ==
    LET path_parts == Split(workdir, Sep)
        hits == {i \in 1..Len(path_parts) : path_parts[i] = keyword}
    IN  IF hits = {}
        THEN Raise(<<"ValueError: Could not auto-initialise data dir: keyword not found in cwd">>)
        ELSE __set_base_data_dir(
                 JoinWith(Sep, SubSeq(path_parts, 1, FirstIndex(hits))), workdir)

\* mutant: the force test of core.py:121 inverted
AlreadyInitialised_Inverted(flag, force) == flag /\ force
\* mutant: the guard of core.py:121 left out
AlreadyInitialised_NoGuard(flag, force) == FALSE

AlreadyInitialised(flag, force) == flag /\ ~force

\* mutant: the keyword consulted before base_data_dir
ResolveBaseDir_KeywordFirst(base_data_dir, keyword, workdir) ==
    IF Truthy(keyword) THEN __auto_set_base_data_dir(keyword, workdir)
    ELSE IF Truthy(base_data_dir) THEN __set_base_data_dir(base_data_dir, workdir)
    ELSE Raise(<<"ValueError: Must provide either base_data_dir or keyword to initialise().">>)
\* mutant: the working directory used when neither argument is given
ResolveBaseDir_DefaultsToCwd(base_data_dir, keyword, workdir) ==
    IF Truthy(base_data_dir) THEN __set_base_data_dir(base_data_dir, workdir)
    ELSE IF Truthy(keyword) THEN __auto_set_base_data_dir(keyword, workdir)
    ELSE __set_base_data_dir(workdir, workdir)

ResolveBaseDir(base_data_dir, keyword, workdir) ==
    IF Truthy(base_data_dir) THEN __set_base_data_dir(base_data_dir, workdir)
    ELSE IF Truthy(keyword) THEN __auto_set_base_data_dir(keyword, workdir)
    ELSE Raise(<<"ValueError: Must provide either base_data_dir or keyword to initialise().">>)

BaseKey == Name("BASE_DATA_DIR")
BaseEntry(base_dir) == [k \in {BaseKey} |-> Str(base_dir)]
ResolvedPaths(base_dir) ==
    LET rel_paths == __import_vars_from_file.rel_paths IN
    [name \in DOMAIN rel_paths |-> Str(combine_paths(<<base_dir, rel_paths[name]>>))]
BuildTable(base_dir) ==
    DictUpdate(DictUpdate(BaseEntry(base_dir), ResolvedPaths(base_dir)),
               __import_vars_from_file.constants)

Call(op, base_data_dir, keyword, force, names, outcome, warned) ==
    [op |-> op, base_data_dir |-> base_data_dir, keyword |-> keyword, force |-> force,
     names |-> names, outcome |-> outcome, warned |-> warned]

NoNames == [t |-> "None", v |-> <<>>]

initialise_config(base_data_dir, keyword, force, verbose) ==
    /\ \A t \in DOMAIN pc : pc[t] = "idle"
    /\ IF AlreadyInitialised(_initialized, force)
       THEN /\ stdout' = IF verbose
                         THEN {<<"Configuration already initialised with BASE_DATA_DIR:">>
                               \o (IF BaseKey \in DOMAIN _vars THEN _vars[BaseKey].v
                                   ELSE <<"<unknown>">>)}
                         ELSE {}
            /\ last' = Call("initialise_config", base_data_dir, keyword, force, NoNames,
                            "noop", FALSE)
            /\ UNCHANGED <<_vars, _initialized, globals>>
       ELSE \E r \in {ResolveBaseDir(base_data_dir, keyword, cwd)} :
            IF ~r.ok
            THEN /\ stdout' = {}
                 /\ last' = Call("initialise_config", base_data_dir, keyword, force, NoNames,
                                 "raised", FALSE)
                 /\ UNCHANGED <<_vars, _initialized, globals>>
            ELSE /\ _vars' = BuildTable(r.val)
                 /\ globals' = DictUpdate(globals, _vars')
                 /\ _initialized' = TRUE
                 /\ stdout' = IF verbose
                              THEN {<<"Configuration initialised with base directory:">> \o r.val}
                              ELSE {}
                 /\ last' = Call("initialise_config", base_data_dir, keyword, force, NoNames,
                                 "initialised", FALSE)
    /\ UNCHANGED <<cwd, pc, loc, seen>>

(***************************************************************************)
(* config/core.py: inspection and debug utilities                          *)
(***************************************************************************)
AllowedTypes == {"str", "int", "float", "bool", "dict", "list", "tuple"}
get_config_vars ==
    LET public == {name \in DOMAIN globals :
                       ~IsPrivate(name) /\ globals[name].t \in AllowedTypes}
    IN  [name \in public |-> globals[name]]

Line(name, value) == name \o <<"=">> \o value
NotFound == <<"<not found>">>

__print_vars(variables, names, origin_file) ==
    {<<"=== CONFIG VARIABLES">>}
    \cup (IF Truthy(origin_file) THEN {<<"=== from">> \o origin_file} ELSE {})
    \cup (IF names.v # <<>>
          THEN {Line(names.v[i], IF names.v[i] \in DOMAIN variables
                                 THEN variables[names.v[i]].v ELSE NotFound) :
                    i \in 1..Len(names.v)}
          ELSE {Line(k, variables[k].v) : k \in DOMAIN variables})

\* mutant: the test of core.py:237 inverted
_warnif_not_initialised_Inverted == _initialized

_warnif_not_initialised == ~_initialized

print_config_vars(names) ==
    /\ \A t \in DOMAIN pc : pc[t] = "idle"
    /\ LET warned == _warnif_not_initialised
           asList == IF names.t = "str" THEN [t |-> "list", v |-> <<names.v>>] ELSE names
           config_vars == get_config_vars
           hits == {k \in DOMAIN config_vars : k \in {Name("config_filename"),
                                                     Name("CONFIG_FILENAME")}}
           config_filename == IF hits = {} THEN NoneVal
                              ELSE config_vars[CHOOSE k \in hits : TRUE].v
       IN  /\ stdout' = __print_vars(get_config_vars, asList, config_filename)
           /\ last' = Call("print_config_vars", NoneVal, NoneVal, FALSE, names,
                           "returned", warned)
    /\ UNCHANGED <<_vars, _initialized, globals, cwd, pc, loc, seen>>

NonPathTokens == {"*", "*.dcm", "{subject}", "<None>"}
LooksLikePath(value) ==
    /\ value.t = "str"
    /\ \E i \in 1..Len(value.v) : value.v[i] \in {"/", "\\"}
    /\ \A i \in 1..Len(value.v) : value.v[i] \notin NonPathTokens

verify_paths ==
    /\ \A t \in DOMAIN pc : pc[t] = "idle"
    /\ LET warned == _warnif_not_initialised
           names == {varname \in DOMAIN _vars : LooksLikePath(_vars[varname])}
           pths == [varname \in names |-> exists(_vars[varname].v, cwd)]
       IN  /\ stdout' = IF names # {}
                        THEN {pth \o <<IF pths[pth] THEN ": path exists."
                                       ELSE ": path does not exist.">> : pth \in names}
                        ELSE {<<"No path-like variables found.">>}
           /\ last' = Call("verify_paths", NoneVal, NoneVal, FALSE, NoNames,
                           "returned", warned)
    /\ UNCHANGED <<_vars, _initialized, globals, cwd, pc, loc, seen>>

(***************************************************************************)
(* The single-threaded program: any sequence of calls                      *)
(***************************************************************************)
Threads == {"t1", "t2"}
CoreGlobals ==
    [name \in {Name("os"), Name("re"), Name("warnings"), Name("inspect"),
               Name("cfgvars"), Name("Dict")} |->
        IF name = Name("Dict") THEN Opaque("type", "typing.Dict")
        ELSE Opaque("module", name[1])]

SegNames == {<<>>, P, BsName}
BaseInputs ==
    {NoneVal} \cup
    UNION {{JoinWith(Sep, segs) : segs \in [1..n -> SegNames]} : n \in 1..MaxSegs}
KeywordInputs == {NoneVal, <<>>, P}
NamesInputs ==
    { NoNames,
      [t |-> "str", v |-> BaseKey],
      [t |-> "str", v |-> Name("NOPE")],
      [t |-> "list", v |-> <<>>],
      [t |-> "list", v |-> <<Name("DICOM_ROOT_PATH"), Name("NOPE")>>] }

NoCall == Call("none", NoneVal, NoneVal, FALSE, NoNames, "none", FALSE)
NoLocals == [base_data_dir |-> NoneVal, force |-> FALSE, base_dir |-> <<>>,
             resolved_paths |-> EmptyDict, constants |-> EmptyDict,
             first |-> FALSE, published |-> FALSE]
NotSeen == [table |-> EmptyDict, names |-> EmptyDict, flag |-> FALSE]

Init ==
    /\ _vars = EmptyDict
    /\ _initialized = FALSE
    /\ globals = CoreGlobals
    /\ cwd \in CwdChoices
    /\ last = NoCall
    /\ stdout = {}
    /\ pc = [t \in Threads |-> "idle"]
    /\ loc = [t \in Threads |-> NoLocals]
    /\ seen = NotSeen

Next ==
    \/ \E base_data_dir \in BaseInputs, keyword \in KeywordInputs,
          force \in BOOLEAN, verbose \in BOOLEAN :
           initialise_config(base_data_dir, keyword, force, verbose)
    \/ \E names \in NamesInputs : print_config_vars(names)
    \/ verify_paths

Spec == Init /\ [][Next]_vars

(***************************************************************************)
(* The multi-threaded program: initialise_config holds no lock, so threads *)
(* calling it interleave between its statements (each statement below is   *)
(* one dict operation or one store, atomic under the interpreter lock),    *)
(* while a reader thread looks at the module's state.                      *)
(***************************************************************************)
\* the directories each thread asks for: its own one, or one that is absent
ThreadBases(t) ==
    {IF t = "t1" THEN PathOf(<<P>>) ELSE PathOf(<<(<<"mnt">>)>>), <<Sep, "nope">>}

\* a thread enters initialise_config(base_data_dir=..., force=..., verbose=False)
T_Call(t, base_data_dir, force) ==
    /\ pc[t] = "idle"
    /\ pc' = [pc EXCEPT ![t] = "L121"]
    /\ loc' = [loc EXCEPT ![t] = [NoLocals EXCEPT !.base_data_dir = base_data_dir,
                                                  !.force = force]]
    /\ UNCHANGED <<_vars, _initialized, globals, cwd, last, stdout, seen>>

\* core.py:121-127
T_Guard(t) ==
    /\ pc[t] = "L121"
    /\ IF AlreadyInitialised(_initialized, loc[t].force)
       THEN pc' = [pc EXCEPT ![t] = "idle"] /\ loc' = loc
       ELSE /\ pc' = [pc EXCEPT ![t] = "L129"]
            /\ loc' = [loc EXCEPT ![t].first = ~_initialized]
    /\ UNCHANGED <<_vars, _initialized, globals, cwd, last, stdout, seen>>

\* core.py:129-134
T_Resolve(t) ==
    /\ pc[t] = "L129"
    /\ \E r \in {ResolveBaseDir(loc[t].base_data_dir, NoneVal, cwd)} :
           IF r.ok
           THEN /\ pc' = [pc EXCEPT ![t] = "L137"]
                /\ loc' = [loc EXCEPT ![t].base_dir = r.val]
           ELSE pc' = [pc EXCEPT ![t] = "idle"] /\ loc' = loc
    /\ UNCHANGED <<_vars, _initialized, globals, cwd, last, stdout, seen>>

\* core.py:137-142
T_Import(t) ==
    /\ pc[t] = "L137"
    /\ pc' = [pc EXCEPT ![t] = "L144"]
    /\ loc' = [loc EXCEPT ![t].resolved_paths = ResolvedPaths(loc[t].base_dir),
                          ![t].constants = __import_vars_from_file.constants]
    /\ UNCHANGED <<_vars, _initialized, globals, cwd, last, stdout, seen>>

\* core.py:144
T_StoreBase(t) ==
    /\ pc[t] = "L144"
    /\ _vars' = BaseEntry(loc[t].base_dir)
    /\ pc' = [pc EXCEPT ![t] = "L145"]
    /\ UNCHANGED <<_initialized, globals, cwd, last, stdout, loc, seen>>

\* core.py:145
T_UpdatePaths(t) ==
    /\ pc[t] = "L145"
    /\ _vars' = DictUpdate(_vars, loc[t].resolved_paths)
    /\ pc' = [pc EXCEPT ![t] = "L146"]
    /\ UNCHANGED <<_initialized, globals, cwd, last, stdout, loc, seen>>

\* core.py:146
T_UpdateConstants(t) ==
    /\ pc[t] = "L146"
    /\ _vars' = DictUpdate(_vars, loc[t].constants)
    /\ pc' = [pc EXCEPT ![t] = "L147"]
    /\ UNCHANGED <<_initialized, globals, cwd, last, stdout, loc, seen>>

\* core.py:147
T_Publish(t) ==
    /\ pc[t] = "L147"
    /\ globals' = DictUpdate(globals, _vars)
    /\ pc' = [pc EXCEPT ![t] = "L148"]
    /\ UNCHANGED <<_vars, _initialized, cwd, last, stdout, loc, seen>>

\* core.py:148 (verbose=False: nothing printed), and return
T_SetFlag(t) ==
    /\ pc[t] = "L148"
    /\ _initialized' = TRUE
    /\ pc' = [pc EXCEPT ![t] = "idle"]
    /\ loc' = [loc EXCEPT ![t].published = TRUE]
    /\ UNCHANGED <<_vars, globals, cwd, last, stdout, seen>>

\* a consumer thread reads the table, the module-level names and the flag
Reader ==
    /\ seen' = [table |-> _vars, names |-> globals, flag |-> _initialized]
    /\ UNCHANGED <<_vars, _initialized, globals, cwd, last, stdout, pc, loc>>

NextThreads ==
    \/ \E t \in Threads, force \in BOOLEAN : \E base_data_dir \in ThreadBases(t) :
           T_Call(t, base_data_dir, force)
    \/ \E t \in Threads : T_Guard(t)
    \/ \E t \in Threads : T_Resolve(t)
    \/ \E t \in Threads : T_Import(t)
    \/ \E t \in Threads : T_StoreBase(t)
    \/ \E t \in Threads : T_UpdatePaths(t)
    \/ \E t \in Threads : T_UpdateConstants(t)
    \/ \E t \in Threads : T_Publish(t)
    \/ \E t \in Threads : T_SetFlag(t)
    \/ Reader

InitThreads == Init /\ cwd = PathOf(<<(<<"mnt">>), POld, (<<"analysis">>)>>)

SpecThreads == InitThreads /\ [][NextThreads]_vars

(***************************************************************************)
(* Vocabulary of the properties                                            *)
(***************************************************************************)
IsInitCall(c) == c.op = "initialise_config"
IsHelperCall(c) == c.op \in {"print_config_vars", "verify_paths"}
Frame == UNCHANGED <<_vars, globals, _initialized>>
\* the directory a base_data_dir argument denotes is present on disk
DirPresent(path) == exists(abspath(path, cwd), cwd)
\* the prefixes of cwd that end in a segment exactly equal to keyword k
KeywordPrefixes(k) ==
    {p \in {SubSeq(cwd, 1, n) : n \in 1..Len(cwd)} :
        /\ EndsWith(p, <<Sep>> \o k)
        /\ (Len(p) = Len(cwd) \/ cwd[Len(p) + 1] = Sep)}
ShortestOf(S) == CHOOSE p \in S : \A q \in S : Len(p) <= Len(q)
TableBase == _vars[BaseKey].v

\* C1: a call of initialise_config with force=False in an initialised state raises
\* nothing and leaves the table, the published names and the flag as they were,
\* whatever base_data_dir, keyword and verbose are.
C1_Idempotent ==
    [][(_initialized /\ IsInitCall(last') /\ ~last'.force)
           => (last'.outcome = "noop" /\ Frame)]_vars
\* an unforced second call naming a directory that is absent returned silently
C1_Witness ==
    /\ _initialized /\ IsInitCall(last) /\ ~last.force /\ last.outcome = "noop"
    /\ Truthy(last.base_data_dir) /\ ~DirPresent(last.base_data_dir)

\* C2: a call with an explicit base_data_dir whose directory is absent, not
\* short-circuited by the already-initialised guard, raises and leaves the table,
\* the published names and the flag as they were.
C2_MissingDirFails ==
    [][(/\ IsInitCall(last') /\ Truthy(last'.base_data_dir)
        /\ ~(_initialized /\ ~last'.force)
        /\ ~DirPresent(last'.base_data_dir))
           => (last'.outcome = "raised" /\ Frame)]_vars
\* a forced call on an initialised configuration failed on an absent directory
C2_Witness ==
    /\ _initialized /\ IsInitCall(last) /\ last.force /\ last.outcome = "raised"
    /\ Truthy(last.base_data_dir) /\ ~DirPresent(last.base_data_dir)

\* C3: Uninitialized becomes Initialized only by an initialise_config call that
\* completes; Initialized is never left; the table of an Initialized resolver
\* changes only by a completed call with force=True.
C3_Lifecycle ==
    [][/\ (~_initialized /\ _initialized')
              => (IsInitCall(last') /\ last'.outcome = "initialised")
       /\ _initialized => _initialized'
       /\ (_initialized /\ _vars' # _vars)
              => (IsInitCall(last') /\ last'.force /\ last'.outcome = "initialised")]_vars
\* a forced keyword call failed on an initialised configuration, which stays initialised
C3_Witness ==
    /\ _initialized /\ IsInitCall(last) /\ last.force /\ last.outcome = "raised"
    /\ ~Truthy(last.base_data_dir) /\ Truthy(last.keyword)

\* C4 (as stated): every call of initialise_config with neither base_data_dir nor
\* keyword raises and changes no state.
C4_NeitherAlwaysRaises ==
    [][(IsInitCall(last') /\ ~Truthy(last'.base_data_dir) /\ ~Truthy(last'.keyword))
           => (last'.outcome = "raised" /\ Frame)]_vars
\* C4 (amended): a call with neither argument changes no state; it raises unless
\* the configuration is already initialised and force is False, in which case it
\* returns silently.
C4_NeitherRaisesUnlessGuarded ==
    [][(IsInitCall(last') /\ ~Truthy(last'.base_data_dir) /\ ~Truthy(last'.keyword))
           => /\ Frame
              /\ last'.outcome = IF _initialized /\ ~last'.force THEN "noop" ELSE "raised"]_vars
\* a forced call with neither argument raised on an initialised configuration
C4_Witness ==
    /\ _initialized /\ IsInitCall(last) /\ last.force /\ last.outcome = "raised"
    /\ ~Truthy(last.base_data_dir) /\ ~Truthy(last.keyword)

\* C5: in every Initialized state every value derived from a _REL_* entry is an
\* absolute path that starts with the table's BASE_DATA_DIR.
RelDerivedNames ==
    {SubSeq(CfgVars[i].name, 2, Len(CfgVars[i].name)) :
        i \in {j \in 1..Len(CfgVars) : IsRel(CfgVars[j].name) /\ CfgVars[j].val.t = "str"}}
C5_PrefixInvariant ==
    _initialized =>
        \A name \in RelDerivedNames :
            /\ name \in DOMAIN _vars
            /\ isabs(_vars[name].v)
            /\ StartsWith(_vars[name].v, TableBase)

\* C6 (as stated): a keyword-only call takes the base directory from the first cwd
\* segment equal to the keyword, and raises, changing nothing, when no segment
\* equals it.
KeywordOutcome ==
    IF KeywordPrefixes(last'.keyword) # {}
    THEN /\ last'.outcome = "initialised"
         /\ _vars'[BaseKey].v = ShortestOf(KeywordPrefixes(last'.keyword))
    ELSE last'.outcome = "raised" /\ Frame
ExpectedTable(B) ==
    [name \in {BaseKey} \cup RelDerivedNames
               \cup {CfgVars[i].name : i \in {j \in 1..Len(CfgVars) : ~IsPrivate(CfgVars[j].name)}}
        |-> IF name = BaseKey THEN Str(B)
            ELSE LET i == CHOOSE j \in 1..Len(CfgVars) :
                              CfgVars[j].name \in {name, <<"_REL_">> \o name}
                 IN  IF IsRel(CfgVars[i].name)
                     THEN Str(join(<<B, Replace(CfgVars[i].val.v, "\\", Sep)>>))
                     ELSE CfgVars[i].val]
C7_WholesaleTable ==
    (IsInitCall(last) /\ last.outcome = "initialised")
        => /\ _vars = ExpectedTable(TableBase)
           /\ \A name \in DOMAIN _vars : globals[name] = _vars[name]

\* C9: print_config_vars and verify_paths leave the table, the published names
\* and the flag unchanged and return normally; before initialisation they warn.
C9_HelpersReadOnly ==
    [][IsHelperCall(last')
           => /\ Frame
              /\ last'.outcome = "returned"
              /\ ~_initialized => last'.warned]_vars
\* print_config_vars("NOPE") before initialisation warned and returned
C9_Witness ==
    /\ ~_initialized /\ last.op = "print_config_vars" /\ last.warned
    /\ last.names = [t |-> "str", v |-> Name("NOPE")]

\* C10: in a call not short-circuited by the guard, a non-empty base_data_dir
\* alone decides the outcome, whatever the keyword is; an empty base_data_dir
\* counts as not supplied and the keyword decides.
C10_ArgumentPrecedence ==
    [][(IsInitCall(last') /\ ~(_initialized /\ ~last'.force))
           => /\ Truthy(last'.base_data_dir)
                  => IF DirPresent(last'.base_data_dir)
                     THEN /\ last'.outcome = "initialised"
                          /\ _vars'[BaseKey].v = abspath(last'.base_data_dir, cwd)
                     ELSE last'.outcome = "raised" /\ Frame
              /\ (last'.base_data_dir = <<>> /\ Truthy(last'.keyword))
                  => KeywordOutcome]_vars
\* both arguments given, the keyword absent from cwd, and the call completed
C10_Witness ==
    /\ IsInitCall(last) /\ last.outcome = "initialised"
    /\ Truthy(last.base_data_dir) /\ Truthy(last.keyword)
    /\ KeywordPrefixes(last.keyword) = {}

\* C8: a reader interleaved with initialise_config never observes a partially
\* populated table or module-level names that disagree with the table, and two
\* concurrent first-time calls with different base directories do not both publish.
TableKeys == DOMAIN ExpectedTable(<<Sep>>)
ReaderSawWholeTable ==
    seen.table # EmptyDict =>
        /\ DOMAIN seen.table = TableKeys
        /\ seen.table = BuildTable(seen.table[BaseKey].v)
ReaderSawNamesAgree ==
    seen.flag =>
        \A name \in DOMAIN seen.table :
            name \in DOMAIN seen.names /\ seen.names[name] = seen.table[name]
OneFirstPublication ==
    \A t, u \in Threads :
        (/\ loc[t].first /\ ~loc[t].force /\ loc[t].published
         /\ loc[u].first /\ ~loc[u].force /\ loc[u].published)
            => loc[t].base_dir = loc[u].base_dir
C8_AtomicPublication ==
    ReaderSawWholeTable /\ ReaderSawNamesAgree /\ OneFirstPublication

====
